---- MODULE Spec2Model ----
(***************************************************************************)
(* A model of the ROM deduplication tool (src/main.py): the filename       *)
(* parser RomInfo._parse_filename, the scorer RomInfo.get_priority_score   *)
(* and the three-phase resolver DuplicateDetector.find_duplicates.         *)
(*                                                                         *)
(* Filenames are TLA+ strings; TLC evaluates Len, \o, SubSeq, Head and     *)
(* Tail on them, so the regular expressions of the source are modelled     *)
(* character by character.  Characters are one-character strings.          *)
(***************************************************************************)
EXTENDS Integers, Sequences, FiniteSets, TLC

(***************************************************************************)
(* Python string primitives (ASCII).                                       *)
(***************************************************************************)
LowerLetters == "abcdefghijklmnopqrstuvwxyz"
UpperLetters == "ABCDEFGHIJKLMNOPQRSTUVWXYZ"
Digits == "0123456789"

Ch(s, i) == SubSeq(s, i, i)

\* the 1-based position of character c in string s, 0 when absent
RECURSIVE IndexFrom(_, _, _)
IndexFrom(c, s, i) ==
    IF i > Len(s) THEN 0
    ELSE IF Ch(s, i) = c THEN i
    ELSE IndexFrom(c, s, i + 1)

IndexOf(c, s) == IndexFrom(c, s, 1)

\* the characters of a string
CharsOf(s) == {Ch(s, i) : i \in 1..Len(s)}

LowerSet == CharsOf(LowerLetters)
UpperSet == CharsOf(UpperLetters)
DigitSet == CharsOf(Digits)

\* the case mappings of the letters
ToUpper == [c \in LowerSet |-> Ch(UpperLetters, IndexOf(c, LowerLetters))]
ToLower == [c \in UpperSet |-> Ch(LowerLetters, IndexOf(c, UpperLetters))]

IsDigitCh(c) == c \in DigitSet
IsLowerCh(c) == c \in LowerSet
IsUpperCh(c) == c \in UpperSet
IsAlphaCh(c) == IsLowerCh(c) \/ IsUpperCh(c)
\* \s of the re module, restricted to the blank (the only whitespace of the
\* filenames the model draws)
IsSpaceCh(c) == c = " "

UpperCh(c) == IF IsLowerCh(c) THEN ToUpper[c] ELSE c
LowerCh(c) == IF IsUpperCh(c) THEN ToLower[c] ELSE c

\* str.upper()
RECURSIVE Upper(_)
Upper(s) == IF s = "" THEN "" ELSE UpperCh(Head(s)) \o Upper(Tail(s))

\* str.lower()
RECURSIVE Lower(_)
Lower(s) == IF s = "" THEN "" ELSE LowerCh(Head(s)) \o Lower(Tail(s))

\* str.isdigit() and str.isalpha(): false on the empty string
RECURSIVE AllDigits(_)
AllDigits(s) == s = "" \/ (IsDigitCh(Head(s)) /\ AllDigits(Tail(s)))

RECURSIVE AllAlpha(_)
AllAlpha(s) == s = "" \/ (IsAlphaCh(Head(s)) /\ AllAlpha(Tail(s)))

IsDigit(s) == s # "" /\ AllDigits(s)
IsAlpha(s) == s # "" /\ AllAlpha(s)

StartsWith(s, p) == Len(s) >= Len(p) /\ SubSeq(s, 1, Len(p)) = p

\* the Python test `sub in s`
RECURSIVE Contains(_, _)
Contains(s, sub) ==
    IF Len(s) < Len(sub) THEN FALSE
    ELSE StartsWith(s, sub) \/ Contains(Tail(s), sub)

\* str.strip()
RECURSIVE LStrip(_)
LStrip(s) == IF s # "" /\ IsSpaceCh(Head(s)) THEN LStrip(Tail(s)) ELSE s

RECURSIVE RStrip(_)
RStrip(s) ==
    IF s # "" /\ IsSpaceCh(Ch(s, Len(s))) THEN RStrip(SubSeq(s, 1, Len(s) - 1)) ELSE s

Strip(s) == RStrip(LStrip(s))

\* int(s) for a string of decimal digits
RECURSIVE ToInt(_)
ToInt(s) ==
    IF s = "" THEN 0
    ELSE 10 * ToInt(SubSeq(s, 1, Len(s) - 1)) + (IndexOf(Ch(s, Len(s)), Digits) - 1)

\* ord(c) - ord('A') for an upper-case letter c
OrdFromA(c) == IndexOf(c, UpperLetters) - 1

\* the longest prefix of s made of characters of the class cls
RECURSIVE TakeWhile(_, _)
TakeWhile(cls, s) ==
    IF s # "" /\ Head(s) \in cls THEN Head(s) \o TakeWhile(cls, Tail(s)) ELSE ""

\* re.sub(r'\s+', ' ', s)
RECURSIVE CollapseWs(_)
CollapseWs(s) ==
    IF s = "" THEN ""
    ELSE IF IsSpaceCh(Head(s)) THEN " " \o CollapseWs(LStrip(s))
    ELSE Head(s) \o CollapseWs(Tail(s))

\* s without the characters of the string drop
RECURSIVE RemoveChars(_, _)
RemoveChars(s, drop) ==
    IF s = "" THEN ""
    ELSE IF IndexOf(Head(s), drop) > 0 THEN RemoveChars(Tail(s), drop)
    ELSE Head(s) \o RemoveChars(Tail(s), drop)

(***************************************************************************)
(* Configuration tables.                                                   *)
(***************************************************************************)
\* None, and the optional strings of RomInfo.  The regular expressions
\* capture at least one character and a digest is never empty, and the code
\* only ever tests these fields for truth, so the empty string stands for
\* None.
None == ""

REGION_PRIORITY ==
    ("USA" :> 100) @@ ("U" :> 100) @@ ("US" :> 100) @@ ("America" :> 100) @@
    ("Europe" :> 80) @@ ("E" :> 80) @@ ("EU" :> 80) @@
    ("World" :> 70) @@ ("W" :> 70) @@
    ("Japan" :> 50) @@ ("J" :> 50) @@ ("JP" :> 50) @@
    ("Korea" :> 40) @@ ("K" :> 40) @@ ("Asia" :> 40) @@
    ("France" :> 35) @@ ("F" :> 35) @@ ("Germany" :> 35) @@ ("G" :> 35) @@
    ("Spain" :> 35) @@ ("S" :> 35) @@ ("Italy" :> 35) @@ ("I" :> 35) @@
    ("Australia" :> 60) @@ ("A" :> 60) @@
    ("Brazil" :> 30) @@ ("B" :> 30) @@ ("China" :> 30) @@ ("C" :> 30)

REMOVE_TAGS ==
    {"Beta", "Proto", "Prototype", "Sample", "Demo", "Preview", "Promo",
     "Pre-Release", "Prerelease", "Debug", "Test",
     "Pirate", "Unl", "Unlicensed", "Bootleg",
     "BIOS", "Program"}

REMOVE_BRACKET_TAGS ==
    {"h", "h1", "h2", "h3", "h4", "h5",
     "t", "t1", "t2", "t3",
     "p", "p1", "p2", "p3", "p4", "p5",
     "b", "b1", "b2", "b3",
     "o", "o1",
     "f", "f1",
     "T+"}

GOOD_DUMP_TAG == "!"

\* SOURCE_VARIANTS is a Python set: its iteration order is fixed within one
\* run and differs between runs (string hashing).  An order is a sequence of
\* the labels; the run's order is the variable sv_order.
SOURCE_VARIANTS ==
    {"Virtual Console", "Switch Online", "Evercade", "Wii", "3DS",
     "NSO", "Classic Mini", "Mini", "Genesis Mini", "Mega Drive Mini"}

\* PREFERRED_FORMATS, a dict literal: iterated in the order written
PREFERRED_FORMATS ==
    << <<"Commodore 64", <<".d64", ".g64", ".crt", ".prg", ".t64", ".tap", ".nib">> >>,
       <<"Commodore VIC-20", <<".d64", ".crt", ".prg", ".t64", ".tap">> >>,
       <<"Commodore Amiga", <<".adf", ".ipf", ".lha", ".hdf">> >>,
       <<"Sinclair ZX Spectrum", <<".tzx", ".z80", ".tap", ".sna">> >>,
       <<"Amstrad CPC", <<".dsk", ".cdt", ".sna">> >>,
       <<"MSX", <<".rom", ".dsk", ".cas">> >>,
       <<"Atari ST", <<".st", ".stx", ".msa", ".ipf">> >>,
       <<"NEC PC-98", <<".hdi", ".fdi", ".d98", ".fdd">> >> >>

(***************************************************************************)
(* RomInfo._parse_filename                                                 *)
(***************************************************************************)
\* re.findall(r'\(([^)]+)\)', s) with o = "(" and c = ")", and
\* re.findall(r'\[([^\]]+)\]', s) with o = "[" and c = "]": a group opens at
\* an o, runs to the first c after it and holds at least one character.
RECURSIVE FindGroups(_, _, _)
FindGroups(s, o, c) ==
    IF s = "" THEN << >>
    ELSE IF Head(s) = o /\ IndexOf(c, Tail(s)) >= 2
         THEN LET rest == Tail(s)
                  j == IndexOf(c, rest)
              IN  <<SubSeq(rest, 1, j - 1)>> \o FindGroups(SubSeq(rest, j + 1, Len(rest)), o, c)
         ELSE FindGroups(Tail(s), o, c)

\* re.sub of the same two patterns by the empty string
RECURSIVE RemoveGroups(_, _, _)
RemoveGroups(s, o, c) ==
    IF s = "" THEN ""
    ELSE IF Head(s) = o /\ IndexOf(c, Tail(s)) >= 2
         THEN LET rest == Tail(s)
                  j == IndexOf(c, rest)
              IN  RemoveGroups(SubSeq(rest, j + 1, Len(rest)), o, c)
         ELSE Head(s) \o RemoveGroups(Tail(s), o, c)

IsHyphenCh(c) == c = "-" \/ c = "_"

\* re.sub(r'[-_]+$', '', s)
RECURSIVE TrimTrailingSeparators(_)
TrimTrailingSeparators(s) ==
    IF s # "" /\ IsHyphenCh(Ch(s, Len(s)))
    THEN TrimTrailingSeparators(SubSeq(s, 1, Len(s) - 1))
    ELSE s

\* lines 190-195: the base name of a stem
BaseName(name) ==
    LET b1 == RemoveGroups(name, "(", ")")
        b2 == RemoveGroups(b1, "[", "]")
        b3 == Strip(CollapseWs(b2))
    IN  Strip(TrimTrailingSeparators(b3))

IsSepCh(c) == c = "," \/ IsSpaceCh(c)

RECURSIVE DropSeps(_)
DropSeps(s) == IF s # "" /\ IsSepCh(Head(s)) THEN DropSeps(Tail(s)) ELSE s

\* re.split(r'[,\s]+', s)
RECURSIVE SplitFrom(_, _)
SplitFrom(s, cur) ==
    IF s = "" THEN <<cur>>
    ELSE IF IsSepCh(Head(s)) THEN <<cur>> \o SplitFrom(DropSeps(s), "")
    ELSE SplitFrom(Tail(s), cur \o Head(s))

TagParts(tag_clean) ==
    LET parts == SplitFrom(tag_clean, "")
    IN  [i \in 1..Len(parts) |-> Strip(parts[i])]

\* line 205: part in REGION_PRIORITY or part.upper() in [r.upper() for r in REGION_PRIORITY]
IsRegion(part) ==
    \/ part \in DOMAIN REGION_PRIORITY
    \/ \E r \in DOMAIN REGION_PRIORITY : Upper(r) = Upper(part)

RECURSIVE RegionsOf(_)
RegionsOf(parts) ==
    IF parts = << >> THEN << >>
    ELSE (IF IsRegion(Head(parts)) THEN <<Head(parts)>> ELSE << >>) \o RegionsOf(Tail(parts))

\* the classes [A-Z0-9], [\d.] and [AB\d] under re.IGNORECASE
AlnumChars == LowerSet \cup UpperSet \cup DigitSet
VersionChars == DigitSet \cup {"."}
SideChars == {"A", "B", "a", "b"} \cup DigitSet

\* re.match(prefix + r'\s*(cls+)', tag, re.IGNORECASE): the captured group,
\* None when there is no match
MatchAfter(tag, prefix, cls) ==
    IF Len(tag) >= Len(prefix) /\ Lower(SubSeq(tag, 1, Len(prefix))) = Lower(prefix)
    THEN TakeWhile(cls, LStrip(SubSeq(tag, Len(prefix) + 1, Len(tag))))
    ELSE None

\* re.match(r'Rev\s*([A-Z0-9]+)', tag, re.IGNORECASE)
RevMatch(tag) == MatchAfter(tag, "Rev", AlnumChars)

\* re.match(r'v([\d.]+)', tag, re.IGNORECASE): no blank may follow the v
VerMatch(tag) ==
    IF tag # "" /\ LowerCh(Head(tag)) = "v" THEN TakeWhile(VersionChars, Tail(tag)) ELSE None

\* re.match(r'Dis[ck]\s*(\d+)', tag, re.IGNORECASE)
DiscMatch(tag) ==
    LET c == MatchAfter(tag, "Disc", DigitSet)
        k == MatchAfter(tag, "Disk", DigitSet)
    IN  IF c # None THEN c ELSE k

\* re.match(r'Side\s*([AB\d]+)', tag, re.IGNORECASE)
SideMatch(tag) == MatchAfter(tag, "Side", SideChars)

\* line 229: tag_clean in REMOVE_TAGS or any(t in tag_clean for t in REMOVE_TAGS)
IsBadTag(tag_clean) ==
    tag_clean \in REMOVE_TAGS \/ \E t \in REMOVE_TAGS : Contains(tag_clean, t)

\* lines 234-237: the first label, in the set's iteration order, that the tag
\* contains case-insensitively; None when there is none
RECURSIVE SourceVariantOf(_, _)
SourceVariantOf(tag_clean, order) ==
    IF order = << >> THEN None
    ELSE IF Contains(Lower(tag_clean), Lower(Head(order))) THEN Head(order)
    ELSE SourceVariantOf(tag_clean, Tail(order))

\* lines 198-237: one parenthetical tag applied to the fields parsed so far
ParenTag(info, tag, order) ==
    LET tag_clean == Strip(tag)
        rev == RevMatch(tag_clean)
        ver == VerMatch(tag_clean)
        disc == DiscMatch(tag_clean)
        side == SideMatch(tag_clean)
        bad == IsBadTag(tag_clean)
        sv == SourceVariantOf(tag_clean, order)
    IN  [info EXCEPT
            !.regions = @ \o RegionsOf(TagParts(tag_clean)),
            !.revision = IF rev # None THEN rev ELSE @,
            !.version = IF ver # None THEN ver ELSE @,
            !.disc_number = IF disc # None THEN disc ELSE @,
            !.side_number = IF side # None THEN side ELSE @,
            !.tags = IF bad THEN @ \cup {tag_clean} ELSE @,
            !.is_bad = @ \/ bad,
            !.source_variant = IF sv # None THEN sv ELSE @]

\* re.match(r'^[hptbof]\d*$', tag, re.IGNORECASE)
IsBadBracketPattern(tag_clean) ==
    /\ tag_clean # ""
    /\ IndexOf(LowerCh(Head(tag_clean)), "hptbof") > 0
    /\ AllDigits(Tail(tag_clean))

\* lines 240-249: one bracket tag
BracketTag(info, tag) ==
    LET tag_clean == Strip(tag)
        good == tag_clean = GOOD_DUMP_TAG
        bad == /\ ~good
               /\ \/ \E t \in REMOVE_BRACKET_TAGS : Lower(t) = Lower(tag_clean)
                  \/ IsBadBracketPattern(tag_clean)
    IN  [info EXCEPT
            !.bracket_tags = @ \cup {tag_clean},
            !.is_good_dump = @ \/ good,
            !.is_bad = @ \/ bad]

RECURSIVE ParenTags(_, _, _)
ParenTags(info, tags, order) ==
    IF tags = << >> THEN info
    ELSE ParenTags(ParenTag(info, Head(tags), order), Tail(tags), order)

RECURSIVE BracketTags(_, _)
BracketTags(info, tags) ==
    IF tags = << >> THEN info
    ELSE BracketTags(BracketTag(info, Head(tags)), Tail(tags))

\* lines 163-174: the fields of a RomInfo before parsing
EmptyInfo ==
    [base_name |-> "", regions |-> << >>, revision |-> None, version |-> None,
     disc_number |-> None, side_number |-> None, tags |-> {}, bracket_tags |-> {},
     is_bad |-> FALSE, is_good_dump |-> FALSE, source_variant |-> None]

\* RomInfo._parse_filename on the stem `name`
ParseFilename(name, order) ==
    LET paren_matches == FindGroups(name, "(", ")")
        bracket_matches == FindGroups(name, "[", "]")
        i0 == [EmptyInfo EXCEPT !.base_name = BaseName(name)]
    IN  BracketTags(ParenTags(i0, paren_matches, order), bracket_matches)

(***************************************************************************)
(* RomInfo: normalized name and scores.  A rom is a record of the fields   *)
(* set by RomInfo.__init__.                                                *)
(***************************************************************************)
\* get_normalized_name without the disc and side suffixes of lines 259-263
get_normalized_name_NoSuffix(rom) ==
    Strip(CollapseWs(RemoveChars(Lower(rom.base_name), "'\"-")))

\* RomInfo.get_normalized_name
get_normalized_name(rom) ==
    LET n0 == Strip(CollapseWs(RemoveChars(Lower(rom.base_name), "'\"-")))
        n1 == IF rom.disc_number # None THEN n0 \o " disc " \o rom.disc_number ELSE n0
    IN  IF rom.side_number # None THEN n1 \o " side " \o rom.side_number ELSE n1

\* RegionWeight with World below Japan, the order of the module docstring
\* (line 6: USA > Europe > Japan > World)
RegionWeightJapanFirst(r) ==
    IF Upper(r) \in {"WORLD", "W"} THEN 45
    ELSE IF r \in DOMAIN REGION_PRIORITY THEN REGION_PRIORITY[r]
    ELSE IF Upper(r) \in DOMAIN REGION_PRIORITY THEN REGION_PRIORITY[Upper(r)]
    ELSE 0

\* REGION_PRIORITY.get(r, REGION_PRIORITY.get(r.upper(), 0))
RegionWeight(r) ==
    IF r \in DOMAIN REGION_PRIORITY THEN REGION_PRIORITY[r]
    ELSE IF Upper(r) \in DOMAIN REGION_PRIORITY THEN REGION_PRIORITY[Upper(r)]
    ELSE 0

RECURSIVE MaxWeight(_)
MaxWeight(regions) ==
    IF Len(regions) = 1 THEN RegionWeight(regions[1])
    ELSE LET m == MaxWeight(Tail(regions))
             w == RegionWeight(Head(regions))
         IN  IF w >= m THEN w ELSE m

\* RomInfo.get_region_priority
get_region_priority(rom) ==
    IF rom.regions = << >> THEN 0 ELSE MaxWeight(rom.regions)

\* str.split('.')
RECURSIVE SplitDots(_, _)
SplitDots(s, cur) ==
    IF s = "" THEN <<cur>>
    ELSE IF Head(s) = "." THEN <<cur>> \o SplitDots(Tail(s), "")
    ELSE SplitDots(Tail(s), cur \o Head(s))

\* lines 283-287: the score of a version whose components are all numeric.
\* Component i (from 0) weighs 100 ** (3 - i): an integer for the first four
\* components and a float from the fifth on, which the drawn filenames never
\* have.
RECURSIVE VersionScore(_, _)
VersionScore(parts, i) ==
    IF parts = << >> THEN 0
    ELSE ToInt(Head(parts)) * (100 ^ (3 - i)) + VersionScore(Tail(parts), i + 1)

\* An outcome of a call: a value, or an exception that leaves the call
Return(v) == [raised |-> FALSE, value |-> v]
Raise(e) == [raised |-> TRUE, value |-> e]

\* RomInfo.get_revision_score.  ord() of a string of several characters
\* raises TypeError; int('') raises ValueError, which the bare except of
\* lines 288-289 swallows.
get_revision_score(rom) ==
    LET parts == SplitDots(rom.version, "")
        fromVersion ==
            IF rom.version # None /\ \A k \in 1..Len(parts) : IsDigit(parts[k])
            THEN Return(VersionScore(parts, 0))
            ELSE Return(0)
    IN  IF rom.revision # None /\ IsDigit(rom.revision) THEN Return(ToInt(rom.revision))
        ELSE IF rom.revision # None /\ IsAlpha(rom.revision)
             THEN IF Len(rom.revision) = 1
                  THEN Return(OrdFromA(Upper(rom.revision)) + 1)
                  ELSE Raise("TypeError")
        ELSE fromVersion

\* get_priority_score with the region ranked before the verified dump
get_priority_score_RegionFirst(rom) ==
    LET bad_score == IF rom.is_bad THEN 0 ELSE 1
        good_dump == IF rom.is_good_dump THEN 1 ELSE 0
        region == get_region_priority(rom)
        revision == get_revision_score(rom)
        source == IF rom.source_variant # None THEN 0 ELSE 1
    IN  IF revision.raised THEN revision
        ELSE Return(<<bad_score, source, region, good_dump, revision.value>>)

\* RomInfo.get_priority_score: the tuple, or the exception of
\* get_revision_score
get_priority_score(rom) ==
    LET bad_score == IF rom.is_bad THEN 0 ELSE 1
        good_dump == IF rom.is_good_dump THEN 1 ELSE 0
        region == get_region_priority(rom)
        revision == get_revision_score(rom)
        source == IF rom.source_variant # None THEN 0 ELSE 1
    IN  IF revision.raised THEN revision
        ELSE Return(<<bad_score, source, good_dump, region, revision.value>>)

\* Python's order on tuples of integers of one length: a < b
RECURSIVE TupleLess(_, _)
TupleLess(a, b) ==
    IF a = << >> THEN FALSE
    ELSE IF Head(a) # Head(b) THEN Head(a) < Head(b)
    ELSE TupleLess(Tail(a), Tail(b))

\* RomInfo.__init__, lines 156-174, for the file `path` with the digest md5
\* that scan gives it (None when hashing is off or the file is too large) and
\* the fields `info` that _parse_filename extracts
RomInfo(path, md5, info) ==
    [path |-> path, extension |-> Lower(path.suffix), platform |-> path.parent,
     md5 |-> md5,
     base_name |-> info.base_name, regions |-> info.regions,
     revision |-> info.revision, version |-> info.version,
     disc_number |-> info.disc_number, side_number |-> info.side_number,
     tags |-> info.tags, bracket_tags |-> info.bracket_tags,
     is_bad |-> info.is_bad, is_good_dump |-> info.is_good_dump,
     source_variant |-> info.source_variant]

(***************************************************************************)
(* The collection on disk.  A path is the platform directory (the name of  *)
(* the file's parent), the stem and the suffix of the file name.           *)
(***************************************************************************)
IGNORE_EXTENSIONS ==
    {".txt", ".nfo", ".diz", ".jpg", ".jpeg", ".png", ".gif", ".bmp",
     ".pdf", ".doc", ".md", ".html", ".htm", ".xml", ".json", ".dat",
     ".cue", ".m3u", ".sfv", ".md5", ".sha1",
     ".spr", ".mov", ".dad", ".avi", ".mpg", ".mp3", ".wav", ".ogg",
     ".voc", ".mid", ".xmi", ".pak", ".grp", ".wad", ".cfg", ".ini",
     ".sav", ".srm", ".exe", ".com", ".bat", ".dll", ".so", ".dylib"}

SKIP_PLATFORMS == {"MS-DOS", "ScummVM", "Windows", "Apple Mac OS", "Linux", "DOS", "PC"}

Path(parent, stem, suffix) == [parent |-> parent, stem |-> stem, suffix |-> suffix]

\* sorted(self.roms_dir.iterdir()): the platform directories, in sorted order
PlatformDirs == <<"Commodore 64", "MS-DOS", "NES">>

DirIndex(parent) == CHOOSE i \in 1..Len(PlatformDirs) : PlatformDirs[i] = parent

\* The collections the model scans.  The general one: hash duplicates across
\* platforms, name variants, bad dumps, a game with a single file, a format
\* choice, and files that scan skips.
Files ==
    {Path("Commodore 64", "Game (Beta)", ".d64"),
     Path("Commodore 64", "Game (USA)", ".prg"),
     Path("MS-DOS", "Game", ".exe"),
     Path("NES", "Game (USA)", ".nes"),
     Path("NES", "Game (USA)", ".txt"),
     Path("NES", "Game (Europe)", ".nes"),
     Path("NES", "Game (Beta)", ".nes"),
     Path("NES", "Game (Rev AB)", ".nes")}

\* a multi-disc, multi-side game
DiscFiles ==
    {Path("NES", "Game (Disc 1)", ".nes"),
     Path("NES", "Game (Disc 2)", ".nes"),
     Path("NES", "Game (Side A)", ".nes"),
     Path("NES", "Game (Disc 1) (Side B)", ".nes"),
     Path("NES", "Game (USA) (Disc 1)", ".nes")}

\* revision and version tags, well-formed or not
RevFiles ==
    {Path("NES", "Game (Rev A)", ".nes"),
     Path("NES", "Game (Rev B)", ".nes"),
     Path("NES", "Game (Rev 2)", ".nes"),
     Path("NES", "Game (Rev AB)", ".nes"),
     Path("NES", "Game (Rev A1)", ".nes"),
     Path("NES", "Game (v1..2)", ".nes"),
     Path("NES", "Game (v1.1)", ".nes")}

\* a collection of several formats: a platform that has a format preference
\* and one that has none
FormatFiles ==
    {Path("Commodore 64", "Game (Beta)", ".d64"),
     Path("Commodore 64", "Game (USA)", ".prg"),
     Path("Commodore 64", "Game (Europe)", ".crt"),
     Path("NES", "Game (Japan)", ".zip"),
     Path("NES", "Game (USA)", ".nes"),
     Path("NES", "Game (Europe)", ".nes")}

AllFiles == Files \cup DiscFiles \cup RevFiles \cup FormatFiles

\* The content digests.  A digest is opaque (only equality and the order of
\* first appearance are used), so the digests are named in the order in which
\* the scan meets them.
Digests == <<"h1", "h2">>

\* the two iteration orders of SOURCE_VARIANTS the model draws from
SvOrders ==
    {<<"Virtual Console", "Switch Online", "Evercade", "Wii", "3DS",
       "NSO", "Classic Mini", "Mini", "Genesis Mini", "Mega Drive Mini">>,
     <<"Mega Drive Mini", "Genesis Mini", "Mini", "Classic Mini", "NSO",
       "3DS", "Wii", "Evercade", "Switch Online", "Virtual Console">>}

\* the most files a scan meets
MaxFiles == 3

VARIABLES
    disk,             \* the files under the ROMs directory
    sv_order,         \* the iteration order of SOURCE_VARIANTS in this run
    roms,             \* DuplicateDetector.roms, in scan order
    by_hash,          \* DuplicateDetector.by_hash: <<md5, indices into roms>>, in insertion order
    by_name,          \* DuplicateDetector.by_name: <<platform, <<norm_name, indices>>...>>
    duplicates,       \* DuplicateDetector.duplicates
    processed_paths,  \* the local set of find_duplicates
    pc,               \* scan, phase1, phase2, phase3, done, raised
    cursor,           \* the position of the running phase's loop
    arg,              \* the argument of a function applied on its own
    res               \* and its results so far

vars == <<disk, sv_order, roms, by_hash, by_name, duplicates, processed_paths, pc, cursor, arg, res>>

\* _parse_filename of every stem of the collection, under each order
ParsedFiles ==
    [o \in SvOrders |-> [st \in {f.stem : f \in AllFiles} |-> ParseFilename(st, o)]]

(***************************************************************************)
(* DuplicateDetector.scan                                                  *)
(***************************************************************************)
\* lines 331-350: the files scan does not skip
Accepted(path) ==
    /\ ~StartsWith(path.parent, ".") /\ ~StartsWith(path.parent, "_")
    /\ path.parent \notin SKIP_PLATFORMS
    /\ Lower(path.suffix) \notin IGNORE_EXTENSIONS
    /\ ~StartsWith(path.stem, ".")

\* self.by_hash[md5].append(rom)
RECURSIVE AppendTo(_, _, _)
AppendTo(index, key, v) ==
    IF index = << >> THEN << <<key, <<v>> >> >>
    ELSE IF Head(index)[1] = key THEN << <<key, Append(Head(index)[2], v)>> >> \o Tail(index)
    ELSE <<Head(index)>> \o AppendTo(Tail(index), key, v)

\* self.by_name[platform][norm_name].append(rom)
RECURSIVE AppendToName(_, _, _, _)
AppendToName(index, platform, norm_name, v) ==
    IF index = << >> THEN << <<platform, AppendTo(<< >>, norm_name, v)>> >>
    ELSE IF Head(index)[1] = platform
         THEN << <<platform, AppendTo(Head(index)[2], norm_name, v)>> >> \o Tail(index)
    ELSE <<Head(index)>> \o AppendToName(Tail(index), platform, norm_name, v)

ScannedPaths == {roms[i].path : i \in 1..Len(roms)}

\* the digests a newly scanned file may have: none, one met before, or the
\* next new one
DigestChoices ==
    {None} \cup {Digests[k] : k \in {j \in 1..Len(Digests) : j <= Len(by_hash) + 1}}

\* lines 341-368: one file of the walk.  The platform directories come in
\* sorted order, the files of one directory in any order.
ScanFile(path, md5) ==
    /\ pc = "scan"
    /\ Len(roms) < MaxFiles
    /\ path \in disk \ ScannedPaths
    /\ Accepted(path)
    /\ roms # << >> => DirIndex(roms[Len(roms)].platform) <= DirIndex(path.parent)
    /\ md5 \in DigestChoices
    /\ LET rom == RomInfo(path, md5, ParsedFiles[sv_order][path.stem])
           n == Len(roms) + 1
       IN  /\ roms' = Append(roms, rom)
           /\ by_hash' = IF md5 # None THEN AppendTo(by_hash, md5, n) ELSE by_hash
           /\ by_name' = AppendToName(by_name, rom.platform, get_normalized_name(rom), n)
    /\ UNCHANGED <<disk, sv_order, duplicates, processed_paths, pc, cursor, arg, res>>

(***************************************************************************)
(* DuplicateDetector.find_duplicates                                       *)
(***************************************************************************)
\* the key of the sorts: get_priority_score of the rom at index i of roms
ScoreOf(i) == get_priority_score(roms[i]).value

\* the first position of rs whose key no other position beats: sorted() is
\* stable, and with reverse=True equal keys keep their original order
FirstBest(rs) ==
    CHOOSE i \in 1..Len(rs) :
        /\ \A j \in 1..Len(rs) : ~TupleLess(ScoreOf(rs[i]), ScoreOf(rs[j]))
        /\ \A j \in 1..(i - 1) : TupleLess(ScoreOf(rs[j]), ScoreOf(rs[i]))

Without(rs, i) == SubSeq(rs, 1, i - 1) \o SubSeq(rs, i + 1, Len(rs))

RECURSIVE SortedDesc(_)
SortedDesc(rs) ==
    IF rs = << >> THEN << >>
    ELSE LET i == FirstBest(rs)
         IN  <<rs[i]>> \o SortedDesc(Without(rs, i))

\* sorted(rs, key=lambda r: r.get_priority_score(), reverse=True) on indices
\* into roms: the keys are all computed first, so one raising key raises
SortByScore(rs) ==
    IF \E k \in 1..Len(rs) : get_priority_score(roms[rs[k]]).raised
    THEN Raise("TypeError")
    ELSE Return(SortedDesc(rs))

\* ', '.join(list)
RECURSIVE Join(_)
Join(l) ==
    IF l = << >> THEN ""
    ELSE IF Len(l) = 1 THEN l[1]
    ELSE l[1] \o ", " \o Join(Tail(l))

\* One clause of a reason: the text is kind, a colon and the arguments.  The
\* arguments that the code joins out of a Python set are kept as the set.
Clause(kind, args) == [kind |-> kind, args |-> args]

\* str(rom.path.relative_to(self.roms_dir)) is one-to-one on paths: the path
\* stands for it.  The keeper of a standalone bad file:
NoKeeper == Path("", "(none - bad ROM)", "")

ExactDuplicate == <<Clause("Exact duplicate (hash match)", {})>>

\* One entry of self.duplicates (the size, which no decision reads, is left out)
Decision(rom, keep, reason) ==
    [platform |-> rom.platform, remove |-> rom.path, keep |-> keep, reason |-> reason]

\* plat_name.lower() of every entry of PREFERRED_FORMATS
LoweredPlatNames == [k \in 1..Len(PREFERRED_FORMATS) |-> Lower(PREFERRED_FORMATS[k][1])]

\* lines 488-491: the formats of the first entry from position k on whose
\* lower-cased name the lower-cased platform contains
RECURSIVE PreferredFrom(_, _)
PreferredFrom(k, platform_lower) ==
    IF k > Len(PREFERRED_FORMATS) THEN << >>
    ELSE IF Contains(platform_lower, LoweredPlatNames[k]) THEN PREFERRED_FORMATS[k][2]
    ELSE PreferredFrom(k + 1, platform_lower)

\* DuplicateDetector._get_preferred_formats
get_preferred_formats(platform) == PreferredFrom(1, Lower(platform))

\* DuplicateDetector._get_removal_reason
get_removal_reason(rom, keeper) ==
    LET bad ==
            IF rom.is_bad
            THEN (IF rom.tags # {} THEN <<Clause("Bad variant", rom.tags)>> ELSE << >>)
                 \o (IF \E t \in rom.bracket_tags :
                            \E x \in REMOVE_BRACKET_TAGS : Lower(t) = Lower(x)
                     THEN <<Clause("Bad dump tag", rom.bracket_tags)>> ELSE << >>)
            ELSE << >>
        source ==
            IF rom.source_variant # None /\ keeper.source_variant = None
            THEN <<Clause("Source variant", {rom.source_variant})>> ELSE << >>
        format ==
            IF rom.extension # keeper.extension
            THEN <<Clause("Non-preferred format", {rom.extension})>> ELSE << >>
        region ==
            IF get_region_priority(rom) < get_region_priority(keeper)
            THEN <<Clause("Lower region priority",
                          {IF rom.regions # << >> THEN Join(rom.regions) ELSE "Unknown"})>>
            ELSE << >>
        rs == get_revision_score(rom)
        ks == get_revision_score(keeper)
        revision ==
            IF rs.value < ks.value
            THEN <<Clause("Older revision",
                          {IF rom.revision # None THEN rom.revision
                           ELSE IF rom.version # None THEN rom.version ELSE "base"})>>
            ELSE << >>
        dump ==
            IF ~rom.is_good_dump /\ keeper.is_good_dump
            THEN <<Clause("Not verified dump", {})>> ELSE << >>
        reasons == bad \o source \o format \o region \o revision \o dump
    IN  IF rs.raised THEN rs
        ELSE IF ks.raised THEN ks
        ELSE Return(IF reasons = << >> THEN <<Clause("Duplicate (name match)", {})>> ELSE reasons)

\* the state of the loops of find_duplicates: whether an exception left the
\* call, the decision list and the decided paths
Loop(raised, dups, done) == [raised |-> raised, duplicates |-> dups, processed |-> done]

\* Phase1Loop with line 408 left out: the losers of a bucket are not marked
\* as decided
RECURSIVE Phase1LoopUnmarked(_, _, _)
Phase1LoopUnmarked(rs, keeper, st) ==
    IF rs = << >> THEN st
    ELSE LET rom == roms[Head(rs)]
         IN  Phase1LoopUnmarked(Tail(rs), keeper,
                 IF rom.path \notin st.processed
                 THEN Loop(FALSE, Append(st.duplicates, Decision(rom, keeper.path, ExactDuplicate)),
                           st.processed)
                 ELSE st)

\* lines 399-408: the losers of one hash bucket, in sorted order
RECURSIVE Phase1Loop(_, _, _)
Phase1Loop(rs, keeper, st) ==
    IF rs = << >> THEN st
    ELSE LET rom == roms[Head(rs)]
         IN  Phase1Loop(Tail(rs), keeper,
                 IF rom.path \notin st.processed
                 THEN Loop(FALSE, Append(st.duplicates, Decision(rom, keeper.path, ExactDuplicate)),
                           st.processed \cup {rom.path})
                 ELSE st)

\* lines 393-408: one hash bucket
Phase1Bucket(rs, st) ==
    IF Len(rs) > 1
    THEN LET roms_sorted == SortByScore(rs)
         IN  IF roms_sorted.raised THEN Loop(TRUE, st.duplicates, st.processed)
             ELSE Phase1Loop(Tail(roms_sorted.value), roms[roms_sorted.value[1]], st)
    ELSE st

\* lines 422-424: the extensions of by_format in insertion order
RECURSIVE FormatsSeen(_, _)
FormatsSeen(rs, seen) ==
    IF rs = << >> THEN seen
    ELSE LET e == roms[Head(rs)].extension
         IN  FormatsSeen(Tail(rs),
                 IF \E k \in 1..Len(seen) : seen[k] = e THEN seen ELSE Append(seen, e))

InSeq(x, l) == \E k \in 1..Len(l) : l[k] = x

\* lines 430-436: the preferred formats that are present, then the others
FormatOrder(preferred_formats, formats) ==
    LET first == SelectSeq(preferred_formats, LAMBDA f : InSeq(f, formats))
    IN  first \o SelectSeq(formats, LAMBDA f : ~InSeq(f, first))

\* lines 451-467: the files of a group other than its keeper, in group order
RECURSIVE Phase2Loop(_, _, _)
Phase2Loop(rs, keeper, st) ==
    IF rs = << >> THEN st
    ELSE LET rom == roms[Head(rs)]
             reason == get_removal_reason(rom, keeper)
         IN  IF rom.path = keeper.path \/ rom.path \in st.processed
             THEN Phase2Loop(Tail(rs), keeper, st)
             ELSE IF reason.raised THEN Loop(TRUE, st.duplicates, st.processed)
             ELSE Phase2Loop(Tail(rs), keeper,
                      Loop(FALSE, Append(st.duplicates, Decision(rom, keeper.path, reason.value)),
                           st.processed \cup {rom.path}))

\* PickKeeper without the format order of lines 430-436: the best rom of the
\* group whatever its format
PickKeeperByScore(platform, remaining) == SortByScore(remaining)

\* lines 438-445: the best rom of the best format, or the exception of the sort
PickKeeper(platform, remaining) ==
    LET format_order == FormatOrder(get_preferred_formats(platform), FormatsSeen(remaining, << >>))
        fmt == format_order[1]
    IN  SortByScore(SelectSeq(remaining, LAMBDA i : roms[i].extension = fmt))

\* Phase2Group with the test of line 418 off by one: a group of two
\* undecided files is skipped
Phase2GroupOffByOne(platform, rs, st) ==
    LET remaining == SelectSeq(rs, LAMBDA i : roms[i].path \notin st.processed)
        candidates == PickKeeper(platform, remaining)
    IN  IF Len(rs) <= 1 \/ Len(remaining) <= 2 THEN st
        ELSE IF candidates.raised THEN Loop(TRUE, st.duplicates, st.processed)
        ELSE Phase2Loop(remaining, roms[candidates.value[1]], st)

\* lines 412-467: one group of one platform
Phase2Group(platform, rs, st) ==
    LET remaining == SelectSeq(rs, LAMBDA i : roms[i].path \notin st.processed)
        candidates == PickKeeper(platform, remaining)
    IN  IF Len(rs) <= 1 \/ Len(remaining) <= 1 THEN st
        ELSE IF candidates.raised THEN Loop(TRUE, st.duplicates, st.processed)
        ELSE Phase2Loop(remaining, roms[candidates.value[1]], st)

\* Phase3Rom with the test of line 471 left out: a file already decided is
\* decided again
Phase3RomUnchecked(rom, st) ==
    IF rom.is_bad
    THEN Loop(FALSE,
              Append(st.duplicates,
                     Decision(rom, NoKeeper,
                              <<Clause("Bad ROM", IF rom.tags # {} THEN rom.tags ELSE rom.bracket_tags)>>)),
              st.processed \cup {rom.path})
    ELSE st

\* Phase3Rom sparing the files that an earlier decision keeps
Phase3RomSparesKeepers(rom, st) ==
    IF /\ rom.path \notin st.processed
       /\ rom.is_bad
       /\ \A d \in 1..Len(st.duplicates) : st.duplicates[d].keep # rom.path
    THEN Loop(FALSE,
              Append(st.duplicates,
                     Decision(rom, NoKeeper,
                              <<Clause("Bad ROM", IF rom.tags # {} THEN rom.tags ELSE rom.bracket_tags)>>)),
              st.processed \cup {rom.path})
    ELSE st

\* Phase3Rom with the test of line 473 left out: every undecided file is removed
Phase3RomAll(rom, st) ==
    IF rom.path \notin st.processed
    THEN Loop(FALSE,
              Append(st.duplicates,
                     Decision(rom, NoKeeper,
                              <<Clause("Bad ROM", IF rom.tags # {} THEN rom.tags ELSE rom.bracket_tags)>>)),
              st.processed \cup {rom.path})
    ELSE st

\* lines 470-481: one rom of the third loop
Phase3Rom(rom, st) ==
    IF rom.path \notin st.processed /\ rom.is_bad
    THEN Loop(FALSE,
              Append(st.duplicates,
                     Decision(rom, NoKeeper,
                              <<Clause("Bad ROM", IF rom.tags # {} THEN rom.tags ELSE rom.bracket_tags)>>)),
              st.processed \cup {rom.path})
    ELSE st

\* for platform, name_groups in self.by_name.items(): for norm_name, roms in
\* name_groups.items(): the groups in the order the two loops visit them
RECURSIVE NameGroups(_)
NameGroups(index) ==
    IF index = << >> THEN << >>
    ELSE [k \in 1..Len(Head(index)[2]) |->
             [platform |-> Head(index)[1], norm_name |-> Head(index)[2][k][1],
              roms |-> Head(index)[2][k][2]]]
         \o NameGroups(Tail(index))

\* lines 388-390: find_duplicates is entered once the scan is over
FindDuplicates ==
    /\ pc = "scan"
    /\ duplicates' = << >>
    /\ processed_paths' = {}
    /\ pc' = "phase1"
    /\ cursor' = 1
    /\ UNCHANGED <<disk, sv_order, roms, by_hash, by_name, arg, res>>

\* what a step of a loop leaves behind
Step(st, phase, c) ==
    /\ duplicates' = st.duplicates
    /\ processed_paths' = st.processed
    /\ pc' = IF st.raised THEN "raised" ELSE phase
    /\ cursor' = c
    /\ UNCHANGED <<disk, sv_order, roms, by_hash, by_name, arg, res>>

Now == Loop(FALSE, duplicates, processed_paths)

\* Phase 1: the next hash bucket, or the end of the loop
Phase1 ==
    /\ pc = "phase1"
    /\ IF cursor <= Len(by_hash)
       THEN Step(Phase1Bucket(by_hash[cursor][2], Now), "phase1", cursor + 1)
       ELSE Step(Now, "phase2", 1)

\* Phase 2: the next group of names, or the end of the loops
Phase2 ==
    /\ pc = "phase2"
    /\ LET groups == NameGroups(by_name)
       IN  IF cursor <= Len(groups)
           THEN Step(Phase2Group(groups[cursor].platform, groups[cursor].roms, Now),
                     "phase2", cursor + 1)
           ELSE Step(Now, "phase3", 1)

\* Phase 3: the next rom, or the return of the decision list
Phase3 ==
    /\ pc = "phase3"
    /\ IF cursor <= Len(roms)
       THEN Step(Phase3Rom(roms[cursor], Now), "phase3", cursor + 1)
       ELSE Step(Now, "done", cursor)

\* no function is applied on its own
Idle == << >>

\* the state after DuplicateDetector.__init__, over the collection `files`
InitOn(files) ==
    /\ disk = files
    /\ sv_order \in SvOrders
    /\ roms = << >>
    /\ by_hash = << >>
    /\ by_name = << >>
    /\ duplicates = << >>
    /\ processed_paths = {}
    /\ pc = "scan"
    /\ cursor = 0
    /\ arg = Idle
    /\ res = Idle

Init == InitOn(Files)

InitDisc == InitOn(DiscFiles)

InitRev == InitOn(RevFiles)

InitFormat == InitOn(FormatFiles)

Scan == \E path \in disk : \E md5 \in {None} \cup {Digests[k] : k \in 1..Len(Digests)} : ScanFile(path, md5)

Next == Scan \/ FindDuplicates \/ Phase1 \/ Phase2 \/ Phase3

Spec == Init /\ [][Next]_vars

SpecDisc == InitDisc /\ [][Next]_vars

SpecRev == InitRev /\ [][Next]_vars

SpecFormat == InitFormat /\ [][Next]_vars

(***************************************************************************)
(* The parser and the scorer applied on their own.                         *)
(***************************************************************************)
\* the longest stem whose base name is extracted
MaxStemLen == 4

\* the characters of those stems: a letter, the blank, the separators that
\* are trimmed and the delimiters of the two kinds of tag
StemAlphabet == {"a", " ", "-", "_", "(", ")", "[", "]"}

RECURSIVE StringsOfLen(_)
StringsOfLen(n) ==
    IF n = 0 THEN {""}
    ELSE {s \o c : s \in StringsOfLen(n - 1), c \in StemAlphabet}

Stems == UNION {StringsOfLen(n) : n \in 0..MaxStemLen}

InitBase ==
    /\ disk = {}
    /\ sv_order \in SvOrders
    /\ roms = << >>
    /\ by_hash = << >>
    /\ by_name = << >>
    /\ duplicates = << >>
    /\ processed_paths = {}
    /\ pc = "parse"
    /\ cursor = 0
    /\ arg \in Stems
    /\ res = << >>

\* _parse_filename on the stem, and then on the base name it gave
Reparse ==
    /\ pc = "parse"
    /\ Len(res) < 2
    /\ res' = Append(res, ParseFilename(IF res = << >> THEN arg ELSE res[Len(res)], sv_order).base_name)
    /\ UNCHANGED <<disk, sv_order, roms, by_hash, by_name, duplicates, processed_paths, pc, cursor, arg>>

SpecBase == InitBase /\ [][Reparse]_vars

\* The stems that are ranked against each other: every combination of a
\* region, a revision or version, a bad tag, a source variant and the good
\* dump marker; every region name of the policy on its own; a bad bracket
\* tag; and a revision of several letters.
RegionNames ==
    {"USA", "US", "Europe", "World", "Australia", "Japan", "Korea", "Asia",
     "France", "Germany", "Spain", "Italy", "Brazil", "China"}

ScoreStems ==
    {"G" \o r \o v \o b \o w \o g :
        r \in {"", " (USA)", " (Europe)", " (Japan)", " (Brazil)"},
        v \in {"", " (Rev 1)", " (Rev 2)", " (v1.1)"},
        b \in {"", " (Beta)"},
        w \in {"", " (Virtual Console)"},
        g \in {"", " [!]"}}
    \cup {"G (" \o r \o ")" : r \in RegionNames}
    \cup {"G [h1]", "G (Rev AB)"}

ParsedStems == [o \in SvOrders |-> [st \in ScoreStems |-> ParseFilename(st, o)]]

InitScore ==
    /\ disk = {}
    /\ sv_order \in SvOrders
    /\ roms = << >>
    /\ by_hash = << >>
    /\ by_name = << >>
    /\ duplicates = << >>
    /\ processed_paths = {}
    /\ pc = "args"
    /\ cursor = 0
    /\ arg \in ScoreStems \X ScoreStems
    /\ res = << >>

\* RomInfo(path) for the two files
MakeRoms ==
    /\ pc = "args"
    /\ roms' = [k \in 1..2 |->
                   RomInfo(Path("NES", arg[k], ".nes"), None, ParsedStems[sv_order][arg[k]])]
    /\ pc' = "parsed"
    /\ UNCHANGED <<disk, sv_order, by_hash, by_name, duplicates, processed_paths, cursor, arg, res>>

\* sorted(roms, key=lambda r: r.get_priority_score(), reverse=True), the
\* call of lines 396 and 442, on the two files
Rank ==
    /\ pc = "parsed"
    /\ res' = SortByScore(<<1, 2>>)
    /\ pc' = "ranked"
    /\ UNCHANGED <<disk, sv_order, roms, by_hash, by_name, duplicates, processed_paths, cursor, arg>>

NextScore == MakeRoms \/ Rank

SpecScore == InitScore /\ [][NextScore]_vars

\* The stems whose regions are weighed: every key of REGION_PRIORITY as it is
\* written, in lower case and in upper case, alone in its tag and next to
\* another region; a tag that is no region; and no tag at all.
RegionTokens ==
    UNION {{r, Lower(r), Upper(r)} : r \in DOMAIN REGION_PRIORITY}

RegionStems ==
    {"G (" \o t \o ")" : t \in RegionTokens}
    \cup {"G (" \o t \o ", " \o u \o ")" :
            t \in {"USA", "japan", "Brazil"}, u \in {"Europe", "europe", "WORLD", "j"}}
    \cup {"G (Beta)", "G"}

ParsedRegionStems == [o \in SvOrders |-> [st \in RegionStems |-> ParseFilename(st, o)]]

InitRegion ==
    /\ disk = {}
    /\ sv_order \in SvOrders
    /\ roms = << >>
    /\ by_hash = << >>
    /\ by_name = << >>
    /\ duplicates = << >>
    /\ processed_paths = {}
    /\ pc = "stem"
    /\ cursor = 0
    /\ arg \in RegionStems
    /\ res = << >>

\* RomInfo(path) and then get_region_priority()
WeighRegions ==
    /\ pc = "stem"
    /\ roms' = <<RomInfo(Path("NES", arg, ".nes"), None, ParsedRegionStems[sv_order][arg])>>
    /\ res' = get_region_priority(roms'[1])
    /\ pc' = "weighed"
    /\ UNCHANGED <<disk, sv_order, by_hash, by_name, duplicates, processed_paths, cursor, arg>>

SpecRegion == InitRegion /\ [][WeighRegions]_vars

\* The stems whose versions are scored: versions of one, two and three
\* numeric components, with components of one, two and three digits.
VersionTexts ==
    LET major == {"1", "2"}
        minor == {"0", "9", "99", "100", "150"}
        patch == {"0", "1"}
    IN  major
        \cup {a \o "." \o b : a \in major, b \in minor}
        \cup {a \o "." \o b \o "." \o c : a \in major, b \in minor, c \in patch}

VersionStems == {"G (v" \o v \o ")" : v \in VersionTexts}

ParsedVersionStems == [o \in SvOrders |-> [st \in VersionStems |-> ParseFilename(st, o)]]

InitVersion ==
    /\ disk = {}
    /\ sv_order \in SvOrders
    /\ roms = << >>
    /\ by_hash = << >>
    /\ by_name = << >>
    /\ duplicates = << >>
    /\ processed_paths = {}
    /\ pc = "versions"
    /\ cursor = 0
    /\ arg \in VersionStems \X VersionStems
    /\ res = << >>

\* RomInfo(path) for the two files and then get_revision_score() of each
ScoreVersions ==
    /\ pc = "versions"
    /\ roms' = [k \in 1..2 |->
                   RomInfo(Path("NES", arg[k], ".nes"), None, ParsedVersionStems[sv_order][arg[k]])]
    /\ res' = [k \in 1..2 |-> get_revision_score(roms'[k])]
    /\ pc' = "scored"
    /\ UNCHANGED <<disk, sv_order, by_hash, by_name, duplicates, processed_paths, cursor, arg>>

SpecVersion == InitVersion /\ [][ScoreVersions]_vars

(***************************************************************************)
(* Properties of find_duplicates.                                          *)
(***************************************************************************)
Decisions == 1..Len(duplicates)
Scanned == 1..Len(roms)

\* the paths that some decision removes
RemovedPaths == {duplicates[d].remove : d \in Decisions}

\* the decisions of each phase
IsPhase1(d) == duplicates[d].reason = ExactDuplicate
IsPhase3(d) == duplicates[d].keep = NoKeeper
IsPhase2(d) == ~IsPhase1(d) /\ ~IsPhase3(d)

SameHash(a, b) == a.md5 # None /\ a.md5 = b.md5
SameGroup(a, b) == a.platform = b.platform /\ get_normalized_name(a) = get_normalized_name(b)

\* C1: no path is the 'remove' of two decisions, in any phase; the decided
\* paths are at every moment exactly the paths removed so far, and a path once
\* decided stays decided.
C1_RemovalsDisjoint ==
    /\ [](/\ \A d, e \in Decisions : duplicates[d].remove = duplicates[e].remove => d = e
          /\ processed_paths = RemovedPaths)
    /\ [][processed_paths \subseteq processed_paths']_vars

\* find_duplicates has returned decisions of all three phases
C1_Witness ==
    /\ pc = "done"
    /\ \E d \in Decisions : IsPhase1(d)
    /\ \E d \in Decisions : IsPhase2(d)
    /\ \E d \in Decisions : IsPhase3(d)

\* C2: of two files with one content hash and one (platform, normalized name)
\* group, each one that is not the keeper of their hash bucket is removed as
\* an exact duplicate with that keeper, and by no decision of another kind.
C2_HashPrecedence ==
    pc \in {"phase2", "phase3", "done"} =>
        \A i, j \in Scanned :
            (i # j /\ SameHash(roms[i], roms[j]) /\ SameGroup(roms[i], roms[j])) =>
                \E k \in Scanned :
                    /\ SameHash(roms[k], roms[i])
                    /\ \A r \in {i, j} \ {k} :
                        /\ \E d \in Decisions :
                            /\ duplicates[d].remove = roms[r].path
                            /\ duplicates[d].keep = roms[k].path
                        /\ \A d \in Decisions :
                            duplicates[d].remove = roms[r].path => IsPhase1(d)

\* two files of one hash and one name group went through all three phases
C2_Witness ==
    /\ pc = "done"
    /\ \E i, j \in Scanned :
        i # j /\ SameHash(roms[i], roms[j]) /\ SameGroup(roms[i], roms[j])

\* the files of group g that no decision removes
Kept(g) == {k \in 1..Len(g.roms) : roms[g.roms[k]].path \notin RemovedPaths}

\* C3, as claimed: after find_duplicates every (platform, normalized name)
\* group keeps exactly one of its files.
C3_ExactlyOneKept ==
    pc = "done" =>
        \A n \in 1..Len(NameGroups(by_name)) : Cardinality(Kept(NameGroups(by_name)[n])) = 1

\* C3, amended: after find_duplicates every (platform, normalized name) group
\* keeps at most one of its files.
C3_AtMostOneKept ==
    pc = "done" =>
        \A n \in 1..Len(NameGroups(by_name)) : Cardinality(Kept(NameGroups(by_name)[n])) <= 1

\* a group of several files of which one is kept and the others are removed
C3_Witness ==
    /\ pc = "done"
    /\ \E n \in 1..Len(NameGroups(by_name)) :
        /\ Len(NameGroups(by_name)[n].roms) >= 2
        /\ Cardinality(Kept(NameGroups(by_name)[n])) = 1

Loner(i) ==
    /\ ~roms[i].is_bad
    /\ \A j \in Scanned \ {i} : ~SameHash(roms[i], roms[j]) /\ ~SameGroup(roms[i], roms[j])

\* C5: a file that is not bad, shares its content hash with no scanned file
\* and is alone in its (platform, normalized name) group is never removed.
C5_LonerNeverRemoved ==
    \A i \in Scanned : Loner(i) => roms[i].path \notin RemovedPaths

\* find_duplicates has removed files and left such a file alone
C5_Witness ==
    /\ pc = "done"
    /\ duplicates # << >>
    /\ \E i \in Scanned : Loner(i)

\* two files of one platform and one base name that are disc 1 and disc 2, or
\* two different sides
DiscPair(a, b) ==
    /\ a.platform = b.platform
    /\ a.base_name = b.base_name
    /\ \/ a.disc_number = "1" /\ b.disc_number = "2"
       \/ a.disc_number = "2" /\ b.disc_number = "1"
       \/ a.side_number # None /\ b.side_number # None /\ a.side_number # b.side_number

\* C6, as claimed: two such files never share a grouping key and neither is
\* ever removed with the other as its keeper, in any phase.
C6_NeverAgainstEachOther ==
    \A i, j \in Scanned :
        DiscPair(roms[i], roms[j]) =>
            /\ get_normalized_name(roms[i]) # get_normalized_name(roms[j])
            /\ \A d \in Decisions :
                ~(duplicates[d].remove = roms[i].path /\ duplicates[d].keep = roms[j].path)

\* C6, amended: two such files never share a grouping key, so Phase 2 never
\* ranks one against the other; one is removed with the other as its keeper
\* only by Phase 1, as an exact duplicate, when they have the same content hash.
C6_OnlyAsExactDuplicates ==
    \A i, j \in Scanned :
        DiscPair(roms[i], roms[j]) =>
            /\ get_normalized_name(roms[i]) # get_normalized_name(roms[j])
            /\ \A d \in Decisions :
                (duplicates[d].remove = roms[i].path /\ duplicates[d].keep = roms[j].path) =>
                    IsPhase1(d) /\ SameHash(roms[i], roms[j])

\* two discs and two sides of one game went through find_duplicates, which
\* removed files
C6_Witness ==
    /\ pc = "done"
    /\ duplicates # << >>
    /\ \E i, j \in Scanned :
        DiscPair(roms[i], roms[j]) /\ roms[i].disc_number # roms[j].disc_number
    /\ \E i, j \in Scanned :
        DiscPair(roms[i], roms[j]) /\ roms[i].side_number # roms[j].side_number

\* C7: find_duplicates never raises: no call of get_priority_score or of
\* _get_removal_reason made by it leaves with an exception.
C7_NeverRaises == pc # "raised"

(***************************************************************************)
(* Properties of the parser and of the scorer.                             *)
(***************************************************************************)
\* C8: parsing a stem and then parsing the base name it gave yields the same
\* base name.
C8_BaseNameIdempotent == Len(res) = 2 => res[2] = res[1]

\* the five ranks of the claim
qualityRank(rom) == IF rom.is_bad THEN 0 ELSE 1
originalityRank(rom) == IF rom.source_variant # None THEN 0 ELSE 1
verifiedRank(rom) == IF rom.is_good_dump THEN 1 ELSE 0
regionRank(rom) == get_region_priority(rom)
revisionRank(rom) == get_revision_score(rom).value

\* a outranks b in the order of the claim
Outranks(a, b) ==
    \/ qualityRank(a) > qualityRank(b)
    \/ /\ qualityRank(a) = qualityRank(b)
       /\ \/ originalityRank(a) > originalityRank(b)
          \/ /\ originalityRank(a) = originalityRank(b)
             /\ \/ verifiedRank(a) > verifiedRank(b)
                \/ /\ verifiedRank(a) = verifiedRank(b)
                   /\ \/ regionRank(a) > regionRank(b)
                      \/ /\ regionRank(a) = regionRank(b)
                         /\ revisionRank(a) > revisionRank(b)

\* C9: the sort by get_priority_score puts first the file that outranks the
\* other lexicographically by quality, originality, verified dump, region and
\* revision: a file that is not bad before any bad file, and so on down the
\* ranks.
C9_LexicographicOrder ==
    (pc = "ranked" /\ ~res.raised) =>
        /\ Outranks(roms[1], roms[2]) => res.value = <<1, 2>>
        /\ Outranks(roms[2], roms[1]) => res.value = <<2, 1>>
        /\ \A i, j \in 1..2 :
            (~roms[i].is_bad /\ roms[j].is_bad) => res.value = <<i, j>>

\* a file that is not bad and has the lowest other ranks was sorted before a
\* bad file that has higher ones
C9_Witness ==
    /\ pc = "ranked"
    /\ ~res.raised
    /\ \E i, j \in 1..2 :
        /\ ~roms[i].is_bad /\ roms[j].is_bad
        /\ originalityRank(roms[i]) < originalityRank(roms[j])
        /\ verifiedRank(roms[i]) < verifiedRank(roms[j])
        /\ regionRank(roms[i]) < regionRank(roms[j])
        /\ revisionRank(roms[i]) < revisionRank(roms[j])
        /\ res.value = <<i, j>>

\* the tiers of the region policy, best first
RegionTiers ==
    <<{"USA", "US"}, {"Europe"}, {"World"}, {"Australia"}, {"Japan", "Korea", "Asia"},
      {"France", "Germany", "Spain", "Italy"}, {"Brazil", "China"}>>

TierOf(r) == CHOOSE t \in 1..Len(RegionTiers) : r \in RegionTiers[t]

\* a file whose only region is a name of the policy
HasPolicyRegion(rom) == Len(rom.regions) = 1 /\ rom.regions[1] \in RegionNames

OtherHash(i, j) == ~SameHash(roms[i], roms[j])

\* the files i and j are the whole of their (platform, normalized name) group
\* and have different hashes, so that Phase 2 ranks the one against the other
PairGroup(i, j) ==
    /\ i # j
    /\ SameGroup(roms[i], roms[j])
    /\ OtherHash(i, j)
    /\ \A k \in Scanned \ {i, j} :
        ~SameGroup(roms[k], roms[i]) /\ ~SameHash(roms[k], roms[i]) /\ ~SameHash(roms[k], roms[j])

\* a is 'Game (Rev A)' and b is 'Game (Rev B)': one platform, one extension,
\* names that differ in the revision tag only
RevAB(a, b) ==
    /\ a.path.parent = b.path.parent
    /\ a.path.suffix = b.path.suffix
    /\ a.path.stem = "Game (Rev A)"
    /\ b.path.stem = "Game (Rev B)"

\* C11: of 'Game (Rev A)' and 'Game (Rev B)' with different hashes, Phase 2
\* keeps the Rev B file and removes the Rev A file, and the reason of the
\* removal cites 'Older revision: A'.
C11_RevBKept ==
    pc = "done" =>
        \A i, j \in Scanned :
            (RevAB(roms[i], roms[j]) /\ PairGroup(i, j)) =>
                \E d \in Decisions :
                    /\ duplicates[d].remove = roms[i].path
                    /\ duplicates[d].keep = roms[j].path
                    /\ \E k \in 1..Len(duplicates[d].reason) :
                        duplicates[d].reason[k] = Clause("Older revision", {"A"})

\* the files of group g that Phase 1 left undecided, as indices into roms
Undecided(g) ==
    {g.roms[k] : k \in {n \in 1..Len(g.roms) :
        \A d \in Decisions : IsPhase1(d) => duplicates[d].remove # roms[g.roms[n]].path}}

\* the place of extension e in the preference list l, 0 when it is not listed
PlaceIn(l, e) == IF InSeq(e, l) THEN CHOOSE k \in 1..Len(l) : l[k] = e ELSE 0

\* the place of rom i in the group g
PlaceOf(g, i) == CHOOSE k \in 1..Len(g.roms) : g.roms[k] = i

\* the extension that the format policy fixes for group g: the listed
\* extension of an undecided file that comes first in the platform's
\* preference list, and when none is listed the extension of the first
\* undecided file
PolicyExtension(g) ==
    LET l == get_preferred_formats(g.platform)
        und == Undecided(g)
        listed == {roms[i].extension : i \in {n \in und : InSeq(roms[n].extension, l)}}
        first == CHOOSE i \in und : \A n \in und : PlaceOf(g, i) <= PlaceOf(g, n)
    IN  IF listed # {}
        THEN CHOOSE e \in listed : \A f \in listed : PlaceIn(l, e) <= PlaceIn(l, f)
        ELSE roms[first].extension

\* rom k is a top-scoring file among the undecided files of g that have the
\* policy's extension
TopOfPolicyExtension(g, k) ==
    /\ k \in Undecided(g)
    /\ roms[k].extension = PolicyExtension(g)
    /\ \A n \in Undecided(g) :
        roms[n].extension = PolicyExtension(g) => ~TupleLess(ScoreOf(k), ScoreOf(n))

\* C12: once Phase 2 is over, every group that had at least two undecided
\* files has a keeper that is a top-scoring file of the extension the format
\* policy fixes, whatever the scores of the files of other extensions; Phase 2
\* removed every other undecided file of the group with that keeper, and did
\* not remove the keeper.
C12_FormatPolicyKeeper ==
    pc \in {"phase3", "done"} =>
        \A n \in 1..Len(NameGroups(by_name)) :
            LET g == NameGroups(by_name)[n]
            IN  Cardinality(Undecided(g)) >= 2 =>
                    \E k \in Undecided(g) :
                        /\ TopOfPolicyExtension(g, k)
                        /\ \A i \in Undecided(g) \ {k} :
                            \E d \in Decisions :
                                /\ IsPhase2(d)
                                /\ duplicates[d].remove = roms[i].path
                                /\ duplicates[d].keep = roms[k].path
                        /\ \A d \in Decisions :
                            duplicates[d].remove = roms[k].path => IsPhase3(d)

\* Phase 2 kept a bad file of the preferred format over the two files of
\* other formats of its group, which are not bad
C12_Witness ==
    /\ pc = "done"
    /\ \E k \in Scanned :
        /\ roms[k].is_bad
        /\ roms[k].extension = ".d64"
        /\ \E i, j \in Scanned :
            /\ roms[i].extension = ".prg" /\ roms[j].extension = ".crt"
            /\ ~roms[i].is_bad /\ ~roms[j].is_bad
            /\ \A r \in {i, j} : \E d \in Decisions :
                /\ IsPhase2(d)
                /\ duplicates[d].remove = roms[r].path
                /\ duplicates[d].keep = roms[k].path

(***************************************************************************)
(* Properties of the region weight and of the version score.               *)
(***************************************************************************)
\* the weight of the table entry that token t names in any letter case
TableWeight(t) ==
    REGION_PRIORITY[CHOOSE k \in DOMAIN REGION_PRIORITY : Upper(k) = Upper(t)]

\* the greatest table weight among the recognized tokens
MaxTableWeight(regions) ==
    CHOOSE w \in {TableWeight(regions[k]) : k \in 1..Len(regions)} :
        \A k \in 1..Len(regions) : TableWeight(regions[k]) <= w

\* C13: the region rank is the greatest table weight among the recognized
\* region tokens, looked up without regard to letter case, and it is 0 only
\* when no region was recognized.
C13_CaseInsensitiveWeight ==
    pc = "weighed" =>
        /\ roms[1].regions # << >> => res = MaxTableWeight(roms[1].regions)
        /\ res = 0 => roms[1].regions = << >>

\* the numeric components of the version of a rom, most significant first
Components(rom) ==
    LET parts == SplitDots(rom.version, "")
    IN  [k \in 1..Len(parts) |-> ToInt(parts[k])]

\* a file that has no revision and a version whose components are all numeric
NumericVersion(rom) ==
    /\ rom.revision = None
    /\ rom.version # None
    /\ \A k \in 1..Len(SplitDots(rom.version, "")) : IsDigit(SplitDots(rom.version, "")[k])

\* version a is greater than version b component by component from the left
LeftGreater(a, b) ==
    \E k \in 1..Len(a) :
        /\ k <= Len(b)
        /\ a[k] > b[k]
        /\ \A j \in 1..(k - 1) : a[j] = b[j]

\* C14: of two files with no revision and with numeric versions, the one whose
\* version is greater component by component from the left has the strictly
\* greater revision score.
C14_VersionRadix ==
    pc = "scored" =>
        \A i, j \in 1..2 :
            (/\ NumericVersion(roms[i]) /\ NumericVersion(roms[j])
             /\ LeftGreater(Components(roms[i]), Components(roms[j]))) =>
                /\ ~res[i].raised /\ ~res[j].raised
                /\ res[i].value > res[j].value

(***************************************************************************)
(* Properties of the decision list as a whole.                             *)
(***************************************************************************)
\* C15: the keeper that a decision names is not itself removed by any
\* decision of the list.
C15_KeeperSurvives ==
    \A d \in Decisions :
        duplicates[d].keep # NoKeeper => duplicates[d].keep \notin RemovedPaths

====
